---- MODULE Spec2Model ----
\* A model of modules/core/src/lib/utils/response-utils.ts (loaders.gl):
\* makeResponse, checkResponse, checkResponseSync, getResponseError,
\* getInitialDataUrl and arrayBufferToBase64, together with the parts of the
\* host (Response, FileReader, promises) those functions act on.
\*
\* A JavaScript string is a sequence of one-character strings, a byte buffer a
\* sequence of numbers in 0..255.  An async function runs without interruption
\* up to its first await that has to wait; each such stretch is one action.
EXTENDS Integers, Sequences, FiniteSets, TLC

VARIABLES
  input,        \* the value the first makeResponse call was given
  resource,     \* the argument of the current makeResponse call
  heap,         \* the Response objects that exist; a reference is an index
  mk,           \* the frame of the makeResponse call
  calls,        \* number of makeResponse calls started
  reader,       \* the FileReader of getInitialDataUrl
  preview,      \* the promise getInitialDataUrl returns
  sync,         \* outcome of the last checkResponseSync call
  chk,          \* the frame of the checkResponse call
  bodyPromise,  \* the promise response.json() / response.text() returned to getResponseError
  unhandled,    \* an unhandled promise rejection was reported to the host
  caller        \* what the caller last did to a response, and how it ended

vars == <<input, resource, heap, mk, calls, reader, preview, sync, chk,
          bodyPromise, unhandled, caller>>

-----------------------------------------------------------------------------
\* Bounds of the model.

\* longest status text a fetched response carries
MaxStatusTextLen == 64
\* longest content of a string, ArrayBuffer or Blob resource
MaxDataLen == 6
\* makeResponse calls in one run (the second is applied to the first's result)
MaxCalls == 2

\* Program constants.
INITIAL_DATA_LENGTH == 5
SyncMessageLimit == 60
FetchMessageLimit == 100

-----------------------------------------------------------------------------
\* Text used by the program and by the inputs.

FailedPrefix == <<"F","a","i","l","e","d"," ","t","o"," ","f","e","t","c","h"," ","r","e","s","o","u","r","c","e"," ","(">>
Ellipsis == <<".",".",".">>
DataPrefix == <<"d","a","t","a",":",",">>
DataBase64Prefix == <<"d","a","t","a",":","b","a","s","e","6","4",",">>
ApplicationJson == <<"a","p","p","l","i","c","a","t","i","o","n","/","j","s","o","n">>
ContentLengthName == "content-length"
ContentTypeName == "content-type"
FirstBytesName == "x-first-bytes"

Base64Alphabet == <<"A","B","C","D","E","F","G","H","I","J","K","L","M","N","O","P","Q","R","S","T","U","V","W","X","Y","Z","a","b","c","d","e","f","g","h","i","j","k","l","m","n","o","p","q","r","s","t","u","v","w","x","y","z","0","1","2","3","4","5","6","7","8","9","+","/">>
Letters == <<"a","b","c","d","e","f","g","h","i","j","k","l","m","n","o","p","q","r","s","t","u","v","w","x","y","z">>
Digits == <<"0","1","2","3","4","5","6","7","8","9">>

NotFound == <<"N","o","t"," ","F","o","u","n","d">>
ApplicationJsonUtf8 == <<"a","p","p","l","i","c","a","t","i","o","n","/","j","s","o","n",";"," ","c","h","a","r","s","e","t","=","u","t","f","-","8">>
TextPlain == <<"t","e","x","t","/","p","l","a","i","n">>
TextPlainUtf8 == <<"t","e","x","t","/","p","l","a","i","n",";","c","h","a","r","s","e","t","=","U","T","F","-","8">>
GeoJson == <<"a","p","p","l","i","c","a","t","i","o","n","/","g","e","o","+","j","s","o","n">>
OctetStream == <<"a","p","p","l","i","c","a","t","i","o","n","/","o","c","t","e","t","-","s","t","r","e","a","m">>
BodyErrorObject == <<"{","\"","e","r","r","o","r","\"",":","\"","b","a","d"," ","i","n","p","u","t","\"","}">>
BodyJsonString == <<"\"","o","o","p","s","\"">>
BodyPlain == <<"o","o","p","s">>
BodyTruncated == <<"{","\"","e","r","r","o","r","\"",":">>
ErrorKey == <<"e","r","r","o","r">>
BadInput == <<"b","a","d"," ","i","n","p","u","t">>
Url11 == <<"h","t","t","p",":","/","/","a","/","b","1">>
LongUrl == <<"h","t","t","p","s",":","/","/","e","x","a","m","p","l","e",".","c","o","m","/","d","a","t","a","/","t","i","l","e","s","/","1","2","/","2","0","4","8","/","1","3","6","5","/","t","i","l","e","-","0","0","0","1",".","g","e","o","j","s","o","n">>

-----------------------------------------------------------------------------
\* JavaScript string and number primitives.

Min(a, b) == IF a < b THEN a ELSE b

\* s.slice(from, to) for 0 <= from <= to
Slice(s, from, to) == SubSeq(s, from + 1, Min(to, Len(s)))

\* s.includes(sub)
Includes(s, sub) ==
  \E i \in 0..(Len(s) - Len(sub)) : SubSeq(s, i + 1, i + Len(sub)) = sub

\* String(n) for an integer n >= 0
RECURSIVE ToDecimal(_)
ToDecimal(n) ==
  IF n < 10 THEN <<Digits[n + 1]>>
  ELSE ToDecimal(n \div 10) \o <<Digits[(n % 10) + 1]>>

\* the UTF-8 code of a lower-case letter (the strings of the model are ASCII)
CharCode(c) == 96 + (CHOOSE i \in 1..26 : Letters[i] = c)

\* new TextEncoder().encode(s)
TextEncoderEncode(s) == [i \in 1..Len(s) |-> CharCode(s[i])]

\* btoa of the binary string whose char codes are the given bytes
RECURSIVE btoa(_)
btoa(bytes) ==
  IF Len(bytes) = 0 THEN <<>>
  ELSE IF Len(bytes) = 1 THEN
    << Base64Alphabet[(bytes[1] \div 4) + 1],
       Base64Alphabet[((bytes[1] % 4) * 16) + 1], "=", "=" >>
  ELSE IF Len(bytes) = 2 THEN
    << Base64Alphabet[(bytes[1] \div 4) + 1],
       Base64Alphabet[((bytes[1] % 4) * 16 + (bytes[2] \div 16)) + 1],
       Base64Alphabet[((bytes[2] % 16) * 4) + 1], "=" >>
  ELSE
    << Base64Alphabet[(bytes[1] \div 4) + 1],
       Base64Alphabet[((bytes[1] % 4) * 16 + (bytes[2] \div 16)) + 1],
       Base64Alphabet[((bytes[2] % 16) * 4 + (bytes[3] \div 64)) + 1],
       Base64Alphabet[(bytes[3] % 64) + 1] >>
    \o btoa(SubSeq(bytes, 4, Len(bytes)))

\* arrayBufferToBase64: the bytes become a binary string, which btoa encodes
arrayBufferToBase64(buffer) == btoa(buffer)

-----------------------------------------------------------------------------
\* The host's Response object.  url is the value a read of response.url gives;
\* urlOwn says that url is an own data property made by Object.defineProperty
\* with the default attributes (not writable, not configurable) instead of the
\* getter of Response.prototype.

\* a function without arguments
NoHeaders == [n \in {} |-> <<>>]

\* the Content-Type the Response constructor derives from the body itself
NativeContentType(body) ==
  IF body.kind = "Blob" THEN body.blobType
  ELSE IF body.kind = "other" THEN TextPlainUtf8
  ELSE <<>>

\* new Response(body, {headers}): status 200, empty status text, empty url
NewResponse(body, headers) ==
  [ status     |-> 200,
    statusText |-> <<>>,
    url        |-> <<>>,
    urlOwn     |-> FALSE,
    headers    |-> IF ContentTypeName \notin DOMAIN headers
                      /\ NativeContentType(body) # <<>>
                   THEN headers @@ (ContentTypeName :> NativeContentType(body))
                   ELSE headers,
    body       |-> body.data,
    bodyUsed   |-> FALSE,
    reads      |-> 0 ]

\* response.ok
ok(response) == response.status >= 200 /\ response.status <= 299

\* Object.defineProperty(response, 'url', {value: url}) on an object that has no
\* own url property yet
DefineUrl(response, url) == [response EXCEPT !.url = url, !.urlOwn = TRUE]

\* response.headers.get(name) for a name given in any case: [found, value]
HeadersGet(headers, lowerCaseName) ==
  IF lowerCaseName \in DOMAIN headers
  THEN [found |-> TRUE, value |-> headers[lowerCaseName]]
  ELSE [found |-> FALSE, value |-> <<>>]

\* reader.readAsDataURL(blob) when the read succeeds: event.target.result
ReadAsDataURL(blobType, bytes) ==
  <<"d","a","t","a",":">> \o (IF blobType = <<>> THEN OctetStream ELSE blobType)
  \o <<";","b","a","s","e","6","4",",">> \o btoa(bytes)

-----------------------------------------------------------------------------
\* JSON.parse on the bodies of the model: a string literal without escapes, or
\* an object with one member whose value is such a literal.

IsStringLiteral(s) ==
  /\ Len(s) >= 2
  /\ s[1] = "\"" /\ s[Len(s)] = "\""
  /\ \A i \in 2..(Len(s) - 1) : s[i] # "\"" /\ s[i] # "\\"

Unquote(s) == SubSeq(s, 2, Len(s) - 1)

ParseJSON(s) ==
  IF IsStringLiteral(s)
  THEN [ok |-> TRUE, value |-> [type |-> "string", str |-> Unquote(s)]]
  ELSE IF /\ Len(s) >= 7
          /\ s[1] = "{" /\ s[Len(s)] = "}"
          /\ \E c \in 4..(Len(s) - 3) :
               /\ s[c] = ":"
               /\ IsStringLiteral(SubSeq(s, 2, c - 1))
               /\ IsStringLiteral(SubSeq(s, c + 1, Len(s) - 1))
  THEN LET c == CHOOSE c \in 4..(Len(s) - 3) :
                  /\ s[c] = ":"
                  /\ IsStringLiteral(SubSeq(s, 2, c - 1))
                  /\ IsStringLiteral(SubSeq(s, c + 1, Len(s) - 1))
       IN [ok |-> TRUE,
           value |-> [type |-> "object",
                      key |-> Unquote(SubSeq(s, 2, c - 1)),
                      val |-> Unquote(SubSeq(s, c + 1, Len(s) - 1))]]
  ELSE [ok |-> FALSE, value |-> [type |-> "none"]]

-----------------------------------------------------------------------------
\* The imported collaborators.  A resource carries what each of them reports
\* for it.

isResponse(r) == r.kind = "Response"

getResourceContentLength(r) == r.contentLength

getResourceUrl(r) == r.url

getResourceMIMEType(r) == r.mimeType

\* url-utils: a short url is shown whole, a long one as its two ends
shortenUrlForDisplay(url) ==
  IF Len(url) < 50 THEN url
  ELSE SubSeq(url, 1, 32) \o Ellipsis \o SubSeq(url, Len(url) - 14, Len(url))

\* new FetchError(message, info)
FetchError(message, info) ==
  [message |-> message, reason |-> info.reason, url |-> info.url,
   response |-> info.response]

-----------------------------------------------------------------------------
\* The inputs.

Filler(n) == [i \in 1..n |-> Letters[((i - 1) % 26) + 1]]

ByteFiller(n) == [i \in 1..n |-> ((i - 1) * 85) % 256]

StatusTexts ==
  {<<>>, NotFound, Filler(55), Filler(56), Filler(57), Filler(MaxStatusTextLen)}

Urls == {<<>>, Url11, LongUrl}

ContentTypes == {TextPlain, ApplicationJson, ApplicationJsonUtf8, GeoJson}

Bodies == {<<>>, BodyPlain, BodyJsonString, BodyErrorObject, BodyTruncated}

\* a response a fetch delivered
Fetched(st, txt, u, h, b) ==
  [ status |-> st, statusText |-> txt, url |-> u, urlOwn |-> FALSE,
    headers |-> h, body |-> b, bodyUsed |-> FALSE, reads |-> 0 ]

\* fetched responses: every status line and url with one body, and every
\* Content-Type (or none) with every body under one status line
FetchedResponses ==
  { Fetched(st, txt, u, (ContentTypeName :> TextPlain), BodyPlain) :
      st \in {200, 404}, txt \in StatusTexts, u \in Urls }
  \cup
  { Fetched(404, NotFound, Url11, h, b) :
      h \in {NoHeaders} \cup {(ContentTypeName :> ct) : ct \in ContentTypes},
      b \in Bodies }

ResponseResource(ref) ==
  [kind |-> "Response", ref |-> ref, data |-> <<>>, blobType |-> <<>>,
   contentLength |-> -1, mimeType |-> <<>>, url |-> <<>>]

\* strings, ArrayBuffers, Blobs and one value of no recognised kind (a plain
\* object), each with what the collaborators report for it
PlainResources ==
  { [kind |-> k, ref |-> 0,
     data |-> IF k = "string" THEN Filler(n)
              ELSE IF k = "other" THEN <<>> ELSE ByteFiller(n),
     blobType |-> IF k = "Blob" THEN bt ELSE <<>>,
     contentLength |-> len, mimeType |-> mime, url |-> u] :
      k \in {"string", "ArrayBuffer", "Blob", "other"},
      n \in 0..MaxDataLen, bt \in {<<>>, TextPlain},
      len \in {-1, 0, 12}, mime \in {<<>>, TextPlain}, u \in {<<>>, Url11} }

-----------------------------------------------------------------------------
\* Values of the frames.

NoPromise == [state |-> "none", null |-> TRUE, value |-> <<>>]
Resolved(value) == [state |-> "resolved", null |-> FALSE, value |-> value]
ResolvedNull == [state |-> "resolved", null |-> TRUE, value |-> <<>>]
Pending == [state |-> "pending", null |-> TRUE, value |-> <<>>]

IdleReader == [state |-> "idle", blobSlice |-> <<>>]

IdleMk == [pc |-> "idle", headers |-> NoHeaders, url |-> <<>>, result |-> 0]

NoSync == [called |-> FALSE, ref |-> 0, threw |-> FALSE, message |-> <<>>]

NoReason == [tag |-> "none"]
StringReason(s) == [tag |-> "string", value |-> s]
JsonReason(v) == [tag |-> "json", value |-> v]
\* the promise object itself (bodyPromise), not what it settles to
PromiseReason == [tag |-> "promise"]

NoInfo == [reason |-> NoReason, url |-> <<>>, response |-> 0]
NoError == [message |-> <<>>, reason |-> NoReason, url |-> <<>>, response |-> 0]

\* no response: the value of a frame's snapshot before any call
NoResponse == Fetched(0, <<>>, <<>>, NoHeaders, <<>>)

\* atCall is the response as it was when checkResponse was called
IdleChk ==
  [pc |-> "idle", ref |-> 0, threw |-> FALSE, message |-> <<>>, info |-> NoInfo,
   error |-> NoError, atCall |-> NoResponse]

NoBodyPromise ==
  [kind |-> "none", state |-> "none", cause |-> "none", value |-> [type |-> "none"]]

Init ==
  /\ \/ /\ input \in PlainResources
        /\ heap = <<>>
     \/ /\ input = ResponseResource(1)
        /\ \E r \in FetchedResponses : heap = <<r>>
  /\ resource = input
  /\ mk = IdleMk
  /\ calls = 0
  /\ reader = IdleReader
  /\ preview = NoPromise
  /\ sync = NoSync
  /\ chk = IdleChk
  /\ bodyPromise = NoBodyPromise
  /\ unhandled = FALSE
  /\ caller = "none"

-----------------------------------------------------------------------------
\* makeResponse

\* mutant of headersBeforePreview: > 0 in place of >= 0
headersBeforePreview_PositiveLength(r) ==
  LET contentLength == getResourceContentLength(r)
      type == getResourceMIMEType(r)
      h1 == IF contentLength > 0
            THEN (ContentLengthName :> ToDecimal(contentLength))
            ELSE NoHeaders
  IN IF type # <<>> THEN (ContentTypeName :> type) @@ h1 ELSE h1

\* lines 22-35: the headers known before the preview is awaited
headersBeforePreview(r) ==
  LET contentLength == getResourceContentLength(r)
      type == getResourceMIMEType(r)
      h1 == IF contentLength >= 0
            THEN (ContentLengthName :> ToDecimal(contentLength))
            ELSE NoHeaders
  IN IF type # <<>> THEN (ContentTypeName :> type) @@ h1 ELSE h1

\* getInitialDataUrl up to its return or its wait for the FileReader: the
\* promise it hands to makeResponse
getInitialDataUrl(r) ==
  IF r.kind = "string"
  THEN Resolved(DataPrefix \o Slice(r.data, 0, INITIAL_DATA_LENGTH))
  ELSE IF r.kind = "Blob" THEN Pending
  ELSE IF r.kind = "ArrayBuffer"
  THEN Resolved(DataBase64Prefix
                \o arrayBufferToBase64(Slice(r.data, 0, INITIAL_DATA_LENGTH)))
  ELSE ResolvedNull

\* if (initialDataUrl): neither null nor the empty string
Truthy(p) == ~p.null /\ p.value # <<>>

\* lines 39-41
headersWithPreview(headers, initialDataUrl) ==
  IF Truthy(initialDataUrl)
  THEN (FirstBytesName :> initialDataUrl.value) @@ headers
  ELSE headers

\* lines 45-48: a string becomes the bytes of its encoding
bodyOf(r) ==
  IF r.kind = "string"
  THEN [kind |-> "Uint8Array", data |-> TextEncoderEncode(r.data), blobType |-> <<>>]
  ELSE [kind |-> r.kind, data |-> r.data, blobType |-> r.blobType]

\* mutant of constructResponse: the url override of line 53 is left out
constructResponse_NoUrlOverride(r, headers, url) ==
  NewResponse(bodyOf(r), headers)

\* lines 51-54: the response makeResponse returns
constructResponse(r, headers, url) ==
  DefineUrl(NewResponse(bodyOf(r), headers), url)

\* mutant of passThrough: the response gets a content-length header like any
\* other resource
passThrough_AddsContentLength(response) ==
  [response EXCEPT !.headers = (ContentLengthName :> <<"0">>) @@ @]

\* lines 17-19: a resource that is a response is returned as it is
passThrough(response) == response

\* lines 16-38: the call up to its return (a response) or to the await of
\* the preview
MakeResponseCall ==
  /\ mk.pc = "idle"
  /\ calls < MaxCalls
  /\ calls' = calls + 1
  /\ IF isResponse(resource)
     THEN /\ mk' = [mk EXCEPT !.pc = "done", !.result = resource.ref]
          /\ heap' = [heap EXCEPT ![resource.ref] = passThrough(@)]
          /\ UNCHANGED <<reader, preview>>
     ELSE /\ heap' = heap
          /\ mk' = [pc |-> "awaitInitialDataUrl",
                    headers |-> headersBeforePreview(resource),
                    url |-> getResourceUrl(resource),
                    result |-> 0]
          /\ preview' = getInitialDataUrl(resource)
          /\ reader' = IF resource.kind = "Blob"
                       THEN [state |-> "loading",
                             blobSlice |-> Slice(resource.data, 0, 5)]
                       ELSE reader
  /\ UNCHANGED <<input, resource, sync, chk, bodyPromise, unhandled, caller>>

\* line 115: the reader's load event resolves the promise
ReaderOnLoad ==
  /\ reader.state = "loading"
  /\ reader' = [reader EXCEPT !.state = "load"]
  /\ preview' = Resolved(ReadAsDataURL(<<>>, reader.blobSlice))
  /\ UNCHANGED <<input, resource, heap, mk, calls, sync, chk, bodyPromise,
                 unhandled, caller>>

\* lines 113-117: the reader's error event has no handler; the promise has
\* no reject path and stays pending
ReaderOnError ==
  /\ reader.state = "loading"
  /\ reader' = [reader EXCEPT !.state = "error"]
  /\ UNCHANGED <<input, resource, heap, mk, calls, preview, sync, chk,
                 bodyPromise, unhandled, caller>>

\* lines 38-54: the call from the resolution of the preview to its return
MakeResponseResume ==
  /\ mk.pc = "awaitInitialDataUrl"
  /\ preview.state = "resolved"
  /\ heap' = Append(heap, constructResponse(resource,
                            headersWithPreview(mk.headers, preview), mk.url))
  /\ mk' = [mk EXCEPT !.pc = "done",
                      !.headers = headersWithPreview(mk.headers, preview),
                      !.result = Len(heap) + 1]
  /\ UNCHANGED <<input, resource, calls, reader, preview, sync, chk,
                 bodyPromise, unhandled, caller>>

\* the caller passes the response it got to makeResponse again
CallAgain ==
  /\ mk.pc = "done"
  /\ calls < MaxCalls
  /\ resource' = ResponseResource(mk.result)
  /\ mk' = IdleMk
  /\ UNCHANGED <<input, heap, calls, reader, preview, sync, chk, bodyPromise,
                 unhandled, caller>>

-----------------------------------------------------------------------------
\* The host's body readers.

\* response.json() and response.text() at the call: a body already used gives
\* a promise that is rejected at once, any other body is taken by the read
BodyReadStart(response, kind) ==
  IF response.bodyUsed
  THEN [kind |-> kind, state |-> "rejected", cause |-> "unusable",
        value |-> [type |-> "none"]]
  ELSE [kind |-> kind, state |-> "pending", cause |-> "none",
        value |-> [type |-> "none"]]

\* the response after a body reader was called on it
BodyTaken(response) ==
  IF response.bodyUsed THEN response
  ELSE [response EXCEPT !.bodyUsed = TRUE, !.reads = @ + 1]

\* how a pending read ends: the transport fails, or the text is delivered
\* (json() parses it)
BodyReadEnd(promise, body, readFails) ==
  IF readFails
  THEN [promise EXCEPT !.state = "rejected", !.cause = "readError"]
  ELSE IF promise.kind = "text"
  THEN [promise EXCEPT !.state = "fulfilled",
                       !.value = [type |-> "text", str |-> body]]
  ELSE IF ParseJSON(body).ok
  THEN [promise EXCEPT !.state = "fulfilled", !.value = ParseJSON(body).value]
  ELSE [promise EXCEPT !.state = "rejected", !.cause = "syntax"]

-----------------------------------------------------------------------------
\* checkResponseSync

\* mutant of checkResponseSyncMessage: >= in place of >
checkResponseSyncMessage_TruncatesAtLimit(response) ==
  LET message == ToDecimal(response.status) \o <<" ">> \o response.statusText
  IN IF Len(message) >= SyncMessageLimit
     THEN Slice(message, 0, SyncMessageLimit) \o Ellipsis
     ELSE message

\* lines 74-75
checkResponseSyncMessage(response) ==
  LET message == ToDecimal(response.status) \o <<" ">> \o response.statusText
  IN IF Len(message) > SyncMessageLimit
     THEN Slice(message, 0, SyncMessageLimit) \o Ellipsis
     ELSE message

\* mutant of checkResponseSyncEffect: the check reads the body
checkResponseSyncEffect_ReadsBody(response) == BodyTaken(response)

\* lines 72-78: what the call does to the response (nothing)
checkResponseSyncEffect(response) == response

CheckResponseSync(ref) ==
  /\ sync' = IF ~ok(heap[ref])
             THEN [called |-> TRUE, ref |-> ref, threw |-> TRUE,
                   message |-> checkResponseSyncMessage(heap[ref])]
             ELSE [called |-> TRUE, ref |-> ref, threw |-> FALSE,
                   message |-> <<>>]
  /\ heap' = [heap EXCEPT ![ref] = checkResponseSyncEffect(heap[ref])]
  /\ UNCHANGED <<input, resource, mk, calls, reader, preview, chk, bodyPromise,
                 unhandled, caller>>

-----------------------------------------------------------------------------
\* checkResponse and getResponseError

\* lines 83-85
getResponseErrorMessage(response) ==
  LET shortUrl == shortenUrlForDisplay(response.url)
      message == FailedPrefix \o ToDecimal(response.status) \o <<")", " ">>
                 \o response.statusText \o <<":", " ">> \o shortUrl
  IN IF Len(message) > FetchMessageLimit
     THEN Slice(message, 0, FetchMessageLimit) \o Ellipsis
     ELSE message

\* mutant of initialInfo: the url shown in the message is recorded
initialInfo_ShortUrl(response, ref) ==
  [reason |-> StringReason(response.statusText),
   url |-> shortenUrlForDisplay(response.url), response |-> ref]

\* lines 87-91
initialInfo(response, ref) ==
  [reason |-> StringReason(response.statusText), url |-> response.url,
   response |-> ref]

\* mutant of includesJson: equality in place of includes
includesJson_ExactMatch(contentType) ==
  contentType.found /\ contentType.value = ApplicationJson

\* lines 94-95: contentType?.includes('application/json')
includesJson(contentType) ==
  contentType.found /\ Includes(contentType.value, ApplicationJson)

\* line 97: the value of the conditional's else branch, response.text()
\* without an await: the promise
textBranchValue(promise) == PromiseReason

\* lines 95-96 and 98: the awaited json() gives the parsed value; a rejection
\* is caught and leaves info as it was
infoAfterJson(info, promise) ==
  IF promise.state = "fulfilled"
  THEN [info EXCEPT !.reason = JsonReason(promise.value)]
  ELSE info

\* line 62: whether checkResponse raises
checkResponseRaises(response) == ~ok(response)

\* lines 61-63, 82-97: the call up to its return, its throw, or the await of
\* response.json()
CheckResponseCall(ref) ==
  /\ chk.pc \in {"idle", "done"}
  /\ bodyPromise.state # "pending"
  /\ LET response == heap[ref]
         frame == [pc |-> "done", ref |-> ref, threw |-> FALSE,
                   message |-> <<>>, info |-> NoInfo, error |-> NoError,
                   atCall |-> response]
     IN IF ~checkResponseRaises(response)
        THEN /\ chk' = frame
             /\ UNCHANGED <<heap, bodyPromise, unhandled>>
        ELSE LET message == getResponseErrorMessage(response)
                 info == initialInfo(response, ref)
                 contentType == HeadersGet(response.headers, ContentTypeName)
             IN IF includesJson(contentType)
                THEN /\ bodyPromise' = BodyReadStart(response, "json")
                     /\ heap' = [heap EXCEPT ![ref] = BodyTaken(response)]
                     /\ chk' = [frame EXCEPT !.pc = "awaitJson",
                                             !.message = message,
                                             !.info = info]
                     /\ UNCHANGED unhandled
                ELSE LET promise == BodyReadStart(response, "text")
                         info2 == [info EXCEPT !.reason = textBranchValue(promise)]
                     IN /\ bodyPromise' = promise
                        /\ heap' = [heap EXCEPT ![ref] = BodyTaken(response)]
                        /\ chk' = [frame EXCEPT !.threw = TRUE,
                                                !.message = message,
                                                !.info = info2,
                                                !.error = FetchError(message, info2)]
                        /\ unhandled' = (unhandled \/ promise.state = "rejected")
  /\ UNCHANGED <<input, resource, mk, calls, reader, preview, sync, caller>>

\* the read that json() or text() started ends; nobody handles the rejection
\* of the text() promise
BodyPromiseSettle ==
  /\ bodyPromise.state = "pending"
  /\ \E readFails \in BOOLEAN :
       bodyPromise' = BodyReadEnd(bodyPromise, heap[chk.ref].body, readFails)
  /\ unhandled' = (unhandled \/ (bodyPromise.kind = "text"
                                 /\ bodyPromise'.state = "rejected"))
  /\ UNCHANGED <<input, resource, heap, mk, calls, reader, preview, sync, chk,
                 caller>>

\* lines 96-101, 63-64: json() has settled; the error is built and thrown
CheckResponseResume ==
  /\ chk.pc = "awaitJson"
  /\ bodyPromise.state \in {"fulfilled", "rejected"}
  /\ LET info == infoAfterJson(chk.info, bodyPromise)
     IN chk' = [chk EXCEPT !.pc = "done", !.threw = TRUE, !.info = info,
                           !.error = FetchError(chk.message, info)]
  /\ UNCHANGED <<input, resource, heap, mk, calls, reader, preview, sync,
                 bodyPromise, unhandled, caller>>

-----------------------------------------------------------------------------
\* The caller.

\* the caller reads the body with response.text() or response.json()
CallerReadBody(ref) ==
  /\ caller' = IF heap[ref].bodyUsed THEN "readRejected" ELSE "read"
  /\ heap' = [heap EXCEPT ![ref] = BodyTaken(heap[ref])]
  /\ UNCHANGED <<input, resource, mk, calls, reader, preview, sync, chk,
                 bodyPromise, unhandled>>

\* the caller tries to change response.url.  An assignment changes nothing:
\* the prototype's url has no setter and an own url is not writable.
\* Object.defineProperty gives a response without an own url one, and is
\* refused (TypeError) on an own url, which is not configurable.
CallerSetUrl(ref, how) ==
  /\ IF how = "define" /\ ~heap[ref].urlOwn
     THEN /\ heap' = [heap EXCEPT ![ref] = DefineUrl(heap[ref], LongUrl)]
          /\ caller' = "urlDefined"
     ELSE /\ heap' = heap
          /\ caller' = "urlKept"
  /\ UNCHANGED <<input, resource, mk, calls, reader, preview, sync, chk,
                 bodyPromise, unhandled>>

-----------------------------------------------------------------------------

Next ==
  \/ MakeResponseCall
  \/ ReaderOnLoad
  \/ ReaderOnError
  \/ MakeResponseResume
  \/ CallAgain
  \/ \E ref \in DOMAIN heap : CheckResponseSync(ref)
  \/ \E ref \in DOMAIN heap : CheckResponseCall(ref)
  \/ BodyPromiseSettle
  \/ CheckResponseResume
  \/ \E ref \in DOMAIN heap : CallerReadBody(ref)
  \/ \E ref \in DOMAIN heap, how \in {"assign", "define"} : CallerSetUrl(ref, how)

Spec == Init /\ [][Next]_vars

-----------------------------------------------------------------------------
\* The properties.

\* C1: makeResponse applied to a resource that is a response returns that very
\* object, without waiting, and leaves every response (headers, url, body)
\* as it was; so makeResponse applied to its own result returns that result.
C1_ResponsePassThrough ==
  [][ (mk.pc = "idle" /\ mk'.pc # "idle" /\ isResponse(resource))
      => (mk'.pc = "done" /\ mk'.result = resource.ref /\ heap' = heap) ]_vars

\* makeResponse(makeResponse(r)) has returned, for a fetched response r whose
\* body nobody has read
C1_Witness ==
  /\ isResponse(input) /\ calls = 2 /\ mk.pc = "done"
  /\ mk.result = 1 /\ ~heap[1].bodyUsed

\* C2: a response made from a resource that is no response has the url
\* getResourceUrl reports for the resource, in every state in which it exists,
\* whatever was done to it since.
C2_UrlIsResourceUrl ==
  ~isResponse(input) =>
     \A ref \in DOMAIN heap :
        /\ heap[ref].url = getResourceUrl(input)
        /\ (mk.pc = "done" => mk.result = ref)

\* a made response with a url that is not the constructor's default, after
\* both checks ran on it and the caller tried to change its url
C2_Witness ==
  /\ ~isResponse(input) /\ heap # <<>> /\ heap[1].url = Url11
  /\ sync.called /\ chk.pc = "done" /\ caller = "urlKept"

\* C3: checkResponseSync raises exactly when ok is false; the message is
\* "<status> <statusText>" when that has at most 60 characters and otherwise
\* its first 60 characters followed by "...".
C3_SyncMessage ==
  sync.called =>
    LET response == heap[sync.ref]
        full == ToDecimal(response.status) \o <<" ">> \o response.statusText
    IN /\ sync.threw <=> ~(response.status \in 200..299)
       /\ sync.threw =>
            /\ Len(full) <= 60 => sync.message = full
            /\ Len(full) > 60 =>
                 /\ Len(sync.message) = 63
                 /\ SubSeq(sync.message, 1, 60) = SubSeq(full, 1, 60)
                 /\ SubSeq(sync.message, 61, 63) = <<".", ".", ".">>
       /\ (response.status = 404 /\ response.statusText = NotFound) =>
            sync.message = <<"4","0","4"," ","N","o","t"," ","F","o","u","n","d">>

\* the check raised a message of 61 characters cut to 60 and the marker
C3_Witness ==
  /\ sync.called /\ sync.threw
  /\ heap[sync.ref].statusText = Filler(57) /\ Len(sync.message) = 63

\* C4: for a failed response whose Content-Type does not name JSON and whose
\* body was unread at the call, the error checkResponse raises has the body's
\* text as its reason.
C4_ReasonIsBodyText ==
  ( /\ chk.pc = "done" /\ chk.threw
    /\ ~includesJson(HeadersGet(chk.atCall.headers, ContentTypeName))
    /\ ~chk.atCall.bodyUsed )
  => chk.error.reason = StringReason(chk.atCall.body)

\* C5: when the body read or parse fails, for either content type, the error
\* checkResponse raises has the status text as its reason and the failure
\* reaches the caller in no form.
C5_ReadFailureFallsBack ==
  ( /\ chk.pc = "done" /\ chk.threw
    /\ bodyPromise.state = "rejected" )
  => /\ chk.error.reason = StringReason(chk.atCall.statusText)
     /\ ~unhandled

\* C6: for a failed response whose Content-Type contains application/json and
\* whose body, unread at the call, arrives and is well-formed JSON, the error
\* checkResponse raises has the parsed value as its reason, and the body was
\* read once.
C6_ReasonIsParsedJson ==
  ( /\ chk.pc = "done" /\ chk.threw
    /\ ContentTypeName \in DOMAIN chk.atCall.headers
    /\ chk.atCall.headers[ContentTypeName] \in {ApplicationJson, ApplicationJsonUtf8}
    /\ ~chk.atCall.bodyUsed
    /\ bodyPromise.cause # "readError"
    /\ ParseJSON(chk.atCall.body).ok )
  => /\ chk.error.reason = JsonReason(ParseJSON(chk.atCall.body).value)
     /\ chk.atCall.body = BodyErrorObject =>
          chk.error.reason =
            JsonReason([type |-> "object", key |-> ErrorKey, val |-> BadInput])
     /\ heap[chk.ref].reads = chk.atCall.reads + 1

\* the body {"error":"bad input"} under application/json; charset=utf-8
C6_Witness ==
  /\ chk.pc = "done" /\ chk.threw
  /\ chk.atCall.headers = (ContentTypeName :> ApplicationJsonUtf8)
  /\ chk.atCall.body = BodyErrorObject
  /\ chk.error.reason.tag = "json"
  /\ heap[chk.ref].reads = 1

\* C7: once the FileReader has ended in an error, the makeResponse call that
\* waits for the preview can go on to its return.
C7_ReaderErrorDoesNotSuspend ==
  (reader.state = "error" /\ mk.pc = "awaitInitialDataUrl")
  => ENABLED MakeResponseResume

\* C8: checkResponse raises exactly when ok is false; the error's message is
\* "Failed to fetch resource (<status>) <statusText>: <shortened url>", cut to
\* its first 100 characters and "..." when longer; its url is the url of the
\* response, not shortened; its response is the response passed in.
C8_FetchError ==
  chk.pc = "done" =>
    LET response == chk.atCall
        full == FailedPrefix \o ToDecimal(response.status) \o <<")", " ">>
                \o response.statusText \o <<":", " ">>
                \o shortenUrlForDisplay(response.url)
    IN /\ chk.threw <=> ~(response.status \in 200..299)
       /\ chk.threw =>
            /\ Len(full) <= 100 => chk.error.message = full
            /\ Len(full) > 100 =>
                 /\ Len(chk.error.message) = 103
                 /\ SubSeq(chk.error.message, 1, 100) = SubSeq(full, 1, 100)
                 /\ SubSeq(chk.error.message, 101, 103) = <<".", ".", ".">>
            /\ chk.error.url = response.url
            /\ chk.error.response = chk.ref

\* a raised error whose message was cut and whose url is longer than its
\* display form
C8_Witness ==
  /\ chk.pc = "done" /\ chk.threw
  /\ Len(chk.error.message) = 103
  /\ chk.error.url = LongUrl
  /\ shortenUrlForDisplay(LongUrl) # LongUrl

\* C9: a checkResponseSync call, returning or raising, leaves every response
\* as it was: the body is neither read nor marked used.
C9_SyncCheckLeavesResponse ==
  [][ sync' # sync => heap' = heap ]_vars

\* the check raised and the body is still unread
C9_Witness ==
  /\ sync.called /\ sync.threw
  /\ ~heap[sync.ref].bodyUsed /\ heap[sync.ref].reads = 0
  /\ heap[sync.ref].body = BodyPlain

\* C10: when makeResponse returns for a resource that is no response, the
\* headers it synthesized are: content-length, the decimal length, exactly
\* when the reported length is >= 0; content-type exactly when the reported
\* MIME type is not empty; x-first-bytes exactly when the preview is not null,
\* which it is for strings and ArrayBuffers (empty ones too) and is not for
\* other kinds.  The response carries each synthesized header.
C10_SynthesizedHeaders ==
  (mk.pc = "done" /\ ~isResponse(resource)) =>
    LET h == mk.headers
        len == getResourceContentLength(resource)
        type == getResourceMIMEType(resource)
        made == heap[mk.result].headers
    IN /\ ContentLengthName \in DOMAIN h <=> len >= 0
       /\ len = 0 => h[ContentLengthName] = <<"0">>
       /\ len = 12 => h[ContentLengthName] = <<"1", "2">>
       /\ ContentTypeName \in DOMAIN h <=> type # <<>>
       /\ type # <<>> => h[ContentTypeName] = type
       /\ FirstBytesName \in DOMAIN h <=> ~preview.null
       /\ resource.kind \in {"string", "ArrayBuffer"} => FirstBytesName \in DOMAIN h
       /\ resource.kind = "other" => FirstBytesName \notin DOMAIN h
       /\ \A n \in DOMAIN h : n \in DOMAIN made /\ made[n] = h[n]
       /\ \A n \in {ContentLengthName, FirstBytesName} :
            n \in DOMAIN made => n \in DOMAIN h

\* an empty ArrayBuffer of reported length 0 and no MIME type
C10_Witness ==
  /\ mk.pc = "done" /\ resource.kind = "ArrayBuffer" /\ resource.data = <<>>
  /\ resource.contentLength = 0 /\ resource.mimeType = <<>>
  /\ DOMAIN mk.headers = {ContentLengthName, FirstBytesName}
  /\ DOMAIN heap[mk.result].headers = {ContentLengthName, FirstBytesName}

====
